---- MODULE Spec2Model ----
(***************************************************************************)
(* Regression training for decision stumps (boosting/stump_regress.h):     *)
(* the W_regress accumulator, the Z_regress split score and the C_regress  *)
(* leaf predictor.                                                         *)
(*                                                                         *)
(* Numbers.  The accumulator's fields are doubles; every value they take   *)
(* here is an integer far below 2^53, so double +, - and * are exact and   *)
(* are modelled by integer arithmetic.  The temporaries f, w, fw, ffw of   *)
(* add/transfer are floats: each product is rounded to a 24-bit            *)
(* significand, round-to-nearest-even (RoundToFloat).  A double quotient   *)
(* is kept as the exact rational (Z score) or rounded to float where the   *)
(* code narrows it to float (C_regress).                                   *)
(***************************************************************************)
EXTENDS Integers, Sequences, FiniteSets, Bags, TLC

VARIABLES
    status,   \* "none": no accumulator object exists; "ok": w is constructed
    w,        \* this accumulator: [dist, sqr, wt], each indexed by bucket
    other,    \* a second accumulator (argument of swap / transfer(from,to,w))
    err,      \* message of the exception thrown by the last call, "" if none
    last,     \* the last mutating call: its name, argument and pre-state
    hist,     \* history of w since construction (which examples sit where)
    out,      \* result of the last read-only call (Z or C functional)
    nops,     \* number of calls the driver may still make
    script    \* number of examples of the end-to-end example added so far

vars == <<status, w, other, err, last, hist, out, nops, script>>

-----------------------------------------------------------------------------
(* Bounds of the model *)

\* calls per run: of the accumulator's operations, of accumulator and
\* functionals together, and after the end-to-end example
MaxOps == 3
MaxZCalls == 3
MaxPruneCalls == 4
MaxScenarioOps == 2
\* largest number of labels an accumulator is constructed for
MaxNl == 2

-----------------------------------------------------------------------------
(* Buckets and inputs *)

MISSING == 2
Buckets == 0 .. 2

\* label values (floats); 4097 is the smallest positive integer whose square
\* does not fit a float significand
Labels == {-1, 1, 4097}
\* *it, the example's weight in the sample-weight array
ExampleWeights == {1}
\* the `weight' scale argument of add/transfer
WeightScales == {1, 2}

-----------------------------------------------------------------------------
(* float arithmetic *)

FloatDigits == 24

Abs(x) == IF x < 0 THEN -x ELSE x

RECURSIVE FloatUlp(_, _)
\* spacing of the floats around magnitude a: the least power of two u with
\* a / u < 2^24
FloatUlp(a, u) == IF a \div u < 2 ^ FloatDigits THEN u ELSE FloatUlp(a, 2 * u)

\* conversion of an integer-valued product to float: round to nearest, ties
\* to even
RoundToFloat(x) ==
    LET a == Abs(x)
        u == FloatUlp(a, 1)
        q == a \div u
        r == a % u
        m == IF 2 * r < u THEN q
             ELSE IF 2 * r > u THEN q + 1
             ELSE IF q % 2 = 0 THEN q ELSE q + 1
    IN  IF x < 0 THEN -(m * u) ELSE m * u

-----------------------------------------------------------------------------
(* W_regress *)

ZeroW == [dist |-> [b \in Buckets |-> 0],
          sqr  |-> [b \in Buckets |-> 0],
          wt   |-> [b \in Buckets |-> 0]]

NotRegression == "W_regress::W_regress(): not a regression problem"
NotImplemented == "W_regress::transfer() not implemented"

\* the (f*w, f*f*w, w) triple of one example, as add and transfer compute it
Triple(label, weight, it) ==
    LET f   == label
        wgt == RoundToFloat(it * weight)
        fw  == RoundToFloat(f * wgt)
        ffw == RoundToFloat(f * fw)
    IN  [fw |-> fw, ffw |-> ffw, w |-> wgt]

\* W_regress::add(correct_label, bucket, weight, it, advance)
W_add(acc, label, bucket, weight, it) ==
    LET t == Triple(label, weight, it)
    IN  [dist |-> [acc.dist EXCEPT ![bucket] = @ + t.fw],
         sqr  |-> [acc.sqr  EXCEPT ![bucket] = @ + t.ffw],
         wt   |-> [acc.wt   EXCEPT ![bucket] = @ + t.w]]

\* transfer that forgets to take the weight out of `from'
W_transfer_keeps_wt(acc, label, from, to, weight, it) ==
    LET t  == Triple(label, weight, it)
        s  == [dist |-> [acc.dist EXCEPT ![from] = @ - t.fw],
               sqr  |-> [acc.sqr  EXCEPT ![from] = @ - t.ffw],
               wt   |-> acc.wt]
    IN  [dist |-> [s.dist EXCEPT ![to] = @ + t.fw],
         sqr  |-> [s.sqr  EXCEPT ![to] = @ + t.ffw],
         wt   |-> [s.wt   EXCEPT ![to] = @ + t.w]]

\* transfer that adds the squared term to `from' instead of `to'
W_transfer_sqr_from(acc, label, from, to, weight, it) ==
    LET t  == Triple(label, weight, it)
        s  == [dist |-> [acc.dist EXCEPT ![from] = @ - t.fw],
               sqr  |-> [acc.sqr  EXCEPT ![from] = @ - t.ffw],
               wt   |-> [acc.wt   EXCEPT ![from] = @ - t.w]]
    IN  [dist |-> [s.dist EXCEPT ![to] = @ + t.fw],
         sqr  |-> [s.sqr  EXCEPT ![from] = @ + t.ffw],
         wt   |-> [s.wt   EXCEPT ![to] = @ + t.w]]

\* W_regress::transfer(correct_label, from, to, weight, it, advance)
W_transfer(acc, label, from, to, weight, it) ==
    LET t  == Triple(label, weight, it)
        s  == [dist |-> [acc.dist EXCEPT ![from] = @ - t.fw],
               sqr  |-> [acc.sqr  EXCEPT ![from] = @ - t.ffw],
               wt   |-> [acc.wt   EXCEPT ![from] = @ - t.w]]
    IN  [dist |-> [s.dist EXCEPT ![to] = @ + t.fw],
         sqr  |-> [s.sqr  EXCEPT ![to] = @ + t.ffw],
         wt   |-> [s.wt   EXCEPT ![to] = @ + t.w]]

Max(a, b) == IF a < b THEN b ELSE a

Min(a, b) == IF a < b THEN a ELSE b

\* clip with the sign of wt slipped
W_clip_neg_wt(acc, bucket) ==
    [dist |-> [acc.dist EXCEPT ![bucket] = Max(@, 0)],
     sqr  |-> [acc.sqr  EXCEPT ![bucket] = Max(@, 0)],
     wt   |-> [acc.wt   EXCEPT ![bucket] = Max(-@, 0)]]

\* clip with std::min for std::max
W_clip_min(acc, bucket) ==
    [dist |-> [acc.dist EXCEPT ![bucket] = Min(@, 0)],
     sqr  |-> [acc.sqr  EXCEPT ![bucket] = Min(@, 0)],
     wt   |-> [acc.wt   EXCEPT ![bucket] = Min(@, 0)]]

\* W_regress::clip(bucket)
W_clip(acc, bucket) ==
    [dist |-> [acc.dist EXCEPT ![bucket] = Max(@, 0)],
     sqr  |-> [acc.sqr  EXCEPT ![bucket] = Max(@, 0)],
     wt   |-> [acc.wt   EXCEPT ![bucket] = Max(@, 0)]]

\* W_regress::swap_buckets(b1, b2)
W_swap_buckets(acc, b1, b2) ==
    [dist |-> [acc.dist EXCEPT ![b1] = acc.dist[b2], ![b2] = acc.dist[b1]],
     sqr  |-> [acc.sqr  EXCEPT ![b1] = acc.sqr[b2],  ![b2] = acc.sqr[b1]],
     wt   |-> [acc.wt   EXCEPT ![b1] = acc.wt[b2],   ![b2] = acc.wt[b1]]]

-----------------------------------------------------------------------------
(* exact quotients: i + n/d with 0 <= n < d, in lowest terms *)

RECURSIVE GCD(_, _)
GCD(a, b) == IF b = 0 THEN a ELSE GCD(b, a % b)

\* num / den for den > 0
MkRat(num, den) ==
    LET r == num % den
        g == GCD(den, r)
    IN  [k |-> "num", i |-> num \div den, n |-> r \div g, d |-> den \div g]

IntZ(x) == [k |-> "num", i |-> x, n |-> 0, d |-> 1]

RatAdd(a, b) ==
    LET s == MkRat(a.n * b.d + b.n * a.d, a.d * b.d)
    IN  [s EXCEPT !.i = @ + a.i + b.i]

RatNeg(a) ==
    IF a.n = 0 THEN [a EXCEPT !.i = -a.i]
    ELSE [a EXCEPT !.i = -a.i - 1, !.n = a.d - a.n]

RatSub(a, b) == RatAdd(a, RatNeg(b))

RatLt(a, b) == a.i < b.i \/ (a.i = b.i /\ a.n * b.d < b.n * a.d)

RatLe(a, b) == a = b \/ RatLt(a, b)

-----------------------------------------------------------------------------
(* Z_regress *)

\* the double 1e100 (larger than every other value a score takes here) and a
\* NaN, next to the exact quotients
Worst == [k |-> "big", i |-> 0, n |-> 0, d |-> 1]
NaN == [k |-> "nan", i |-> 0, n |-> 0, d |-> 1]
None == IntZ(-1)
Perfect == IntZ(0)

\* x > 1e-20 for a field x, which is an integer here
GtEpsilon(x) == x > 0

\* z1 < z2 on doubles
ZLt(z1, z2) ==
    /\ z1.k # "nan"
    /\ z2.k # "nan"
    /\ z1.k # "big"
    /\ (z2.k = "big" \/ RatLt(z1, z2))

\* z1 == z2 on doubles
ZEq(z1, z2) == z1.k # "nan" /\ z2.k # "nan" /\ z1 = z2

\* Z_regress::equal(z1, z2)
Z_equal(z1, z2) == ZEq(z1, z2)

\* better without the test for none
Z_better_no_none(z1, z2) == ZLt(z1, z2)

\* Z_regress::better(z1, z2)
Z_better(z1, z2) == ~ZEq(z1, None) /\ ZLt(z1, z2)

\* sqr[b] - (dist[b] * dist[b]) / wt[b]
VarTerm(acc, b) ==
    RatSub(IntZ(acc.sqr[b]), MkRat(acc.dist[b] * acc.dist[b], acc.wt[b]))

\* Z_regress::missing(w, optional)
Z_missing(acc) ==
    IF GtEpsilon(acc.wt[MISSING]) THEN VarTerm(acc, MISSING) ELSE IntZ(0)

\* Z_regress::non_missing(w, missing): the loop over buckets 0 and 1
Z_non_missing(acc, missing) ==
    LET r0 == IF GtEpsilon(acc.wt[0]) THEN RatAdd(missing, VarTerm(acc, 0))
              ELSE missing
    IN  IF GtEpsilon(acc.wt[1]) THEN RatAdd(r0, VarTerm(acc, 1)) ELSE r0

\* Z_regress::operator()(w): non_missing(w, missing(w)).  (The source calls
\* missing with one argument although it declares two; the call is modelled
\* as written, the unused `optional' playing no part.)
Z_score(acc) == Z_non_missing(acc, Z_missing(acc))

TenThousand == 10000

\* Z_regress::can_beat(w, missing, z_best): missing <= z_best * 1.0001, decided
\* as missing - z_best <= z_best / 10000
Z_can_beat(acc, missing, z_best) ==
    \/ z_best.k = "big"
    \/ /\ z_best.k = "num"
       /\ RatLe(RatSub(missing, z_best),
                MkRat(z_best.i * z_best.d + z_best.n, z_best.d * TenThousand))

-----------------------------------------------------------------------------
(* C_regress *)

RECURSIVE ScaleUp(_, _, _)
\* <<a * 2^k, k>> for the least k with a * 2^k >= 2^23 * b
ScaleUp(a, b, k) ==
    IF a >= 2 ^ (FloatDigits - 1) * b THEN <<a, k>> ELSE ScaleUp(2 * a, b, k + 1)

RECURSIVE Normal(_, _)
\* m * 2^e with m odd
Normal(m, e) == IF m % 2 = 0 THEN Normal(m \div 2, e + 1) ELSE [k |-> "num", m |-> m, e |-> e]

\* (float)(p / q) for doubles p, q holding integers with |p| < 2^24 * |q|: the
\* quotient rounded to a 24-bit significand, ties to even; m * 2^e, or the IEEE
\* result of a division by zero.  The double quotient in between rounds to 53
\* bits, which never moves a quotient of integers this small across a float
\* rounding boundary.
FloatQuot(p, q) ==
    IF q = 0 THEN (IF p = 0 THEN [k |-> "nan", m |-> 0, e |-> 0]
                   ELSE [k |-> "inf", m |-> (IF p < 0 THEN -1 ELSE 1), e |-> 0])
    ELSE IF p = 0 THEN [k |-> "num", m |-> 0, e |-> 0]
    ELSE LET a  == Abs(p)
             b  == Abs(q)
             s  == ScaleUp(a, b, 0)
             qq == s[1] \div b
             r  == s[1] % b
             m  == IF 2 * r < b THEN qq
                   ELSE IF 2 * r > b THEN qq + 1
                   ELSE IF qq % 2 = 0 THEN qq ELSE qq + 1
             neg == (p < 0) # (q < 0)
         IN  Normal(IF neg THEN -m ELSE m, -s[2])

\* total and total_wt of the fallback branch: the loop over j = 0, 1, 2
Total(f) == f[0] + f[1] + f[2]

\* the fallback taking the mean of buckets 0 and 1 only
C_regress_two_buckets(acc) ==
    [i \in Buckets |->
        IF GtEpsilon(acc.wt[i]) THEN FloatQuot(acc.dist[i], acc.wt[i])
        ELSE FloatQuot(acc.dist[0] + acc.dist[1], acc.wt[0] + acc.wt[1])]

\* C_regress::operator()(w, epsilon, optional): result[i][0] for i = 0, 1, 2
C_regress(acc) ==
    [i \in Buckets |->
        IF GtEpsilon(acc.wt[i]) THEN FloatQuot(acc.dist[i], acc.wt[i])
        ELSE FloatQuot(Total(acc.dist), Total(acc.wt))]

-----------------------------------------------------------------------------
(* history of the accumulator *)

\* pure:    only add and per-example transfer were called since construction
\* legit:   pure, and every transfer moved an example that was in `from'
\* added:   the sums of the triples of the add calls alone
\* members: the examples per bucket, as a bag of [b, f, w] (legit only)
FreshHist == [pure |-> TRUE, legit |-> TRUE,
              added |-> [dist |-> 0, sqr |-> 0, wt |-> 0],
              members |-> EmptyBag]

NoHist == [pure |-> FALSE, legit |-> FALSE,
           added |-> [dist |-> 0, sqr |-> 0, wt |-> 0],
           members |-> EmptyBag]

Example(b, label, weight, it) ==
    [b |-> b, f |-> label, w |-> Triple(label, weight, it).w]

HistAdd(h, label, bucket, weight, it) ==
    IF ~h.pure THEN NoHist
    ELSE LET t == Triple(label, weight, it)
         IN  [pure |-> TRUE, legit |-> h.legit,
              added |-> [dist |-> h.added.dist + t.fw,
                         sqr  |-> h.added.sqr + t.ffw,
                         wt   |-> h.added.wt + t.w],
              members |-> IF h.legit
                          THEN h.members (+) SetToBag({Example(bucket, label, weight, it)})
                          ELSE EmptyBag]

HistTransfer(h, label, from, to, weight, it) ==
    IF ~h.pure THEN NoHist
    ELSE LET e == Example(from, label, weight, it)
             ok == h.legit /\ BagIn(e, h.members)
         IN  [pure |-> TRUE, legit |-> ok, added |-> h.added,
              members |-> IF ok
                          THEN (h.members (-) SetToBag({e}))
                                   (+) SetToBag({Example(to, label, weight, it)})
                          ELSE EmptyBag]

NoOut == [op |-> "none"]

\* record of a mutating call: its name, its argument, and the accumulators as
\* they were when it was called
Call(name, arg) == [op |-> name, arg |-> arg, pre |-> w, preOther |-> other,
                    prePure |-> status = "ok" /\ hist.pure]

\* the same for add and transfer, whose effect hist records
Step(name) == [op |-> name, arg |-> 0, pre |-> ZeroW, preOther |-> ZeroW,
               prePure |-> hist.pure]

-----------------------------------------------------------------------------
(* the calls *)

\* a constructor that only rejects more than one label
ConstructAtMostOne(nl) ==
    /\ nops > 0
    /\ nops' = nops - 1
    /\ last' = Call("construct", nl)
    /\ out' = NoOut
    /\ IF nl > 1
       THEN /\ err' = NotRegression
            /\ status' = "none"
            /\ w' = w
            /\ hist' = NoHist
       ELSE /\ err' = ""
            /\ status' = "ok"
            /\ w' = ZeroW
            /\ hist' = FreshHist
    /\ UNCHANGED <<other, script>>

\* W_regress::W_regress(nl), constructing a new accumulator in place of w
Construct(nl) ==
    /\ nops > 0
    /\ nops' = nops - 1
    /\ last' = Call("construct", nl)
    /\ out' = NoOut
    /\ IF nl # 1
       THEN /\ err' = NotRegression
            /\ status' = "none"
            /\ w' = w
            /\ hist' = NoHist
       ELSE /\ err' = ""
            /\ status' = "ok"
            /\ w' = [dist |-> [i \in Buckets |-> 0],
                     sqr  |-> [i \in Buckets |-> 0],
                     wt   |-> [i \in Buckets |-> 0]]
            /\ hist' = FreshHist
    /\ UNCHANGED <<other, script>>

\* add(correct_label, bucket, weight, it, advance)
Add(label, bucket, weight, it) ==
    /\ status = "ok"
    /\ nops > 0
    /\ nops' = nops - 1
    /\ w' = W_add(w, label, bucket, weight, it)
    /\ hist' = HistAdd(hist, label, bucket, weight, it)
    /\ last' = Step("add")
    /\ err' = ""
    /\ out' = NoOut
    /\ UNCHANGED <<status, other, script>>

\* add(correct_label, bucket, it, advance): add with weight 1.0
AddUnit(label, bucket, it) == Add(label, bucket, 1, it)

\* transfer(correct_label, from, to, weight, it, advance)
Transfer(label, from, to, weight, it) ==
    /\ status = "ok"
    /\ nops > 0
    /\ nops' = nops - 1
    /\ w' = W_transfer(w, label, from, to, weight, it)
    /\ hist' = HistTransfer(hist, label, from, to, weight, it)
    /\ last' = Step("transfer")
    /\ err' = ""
    /\ out' = NoOut
    /\ UNCHANGED <<status, other, script>>

\* a bulk transfer that moves bucket `from' of the other accumulator into
\* bucket `to' instead of throwing
TransferAccMoves(from, to) ==
    /\ status = "ok"
    /\ nops > 0
    /\ nops' = nops - 1
    /\ err' = ""
    /\ w' = [dist |-> [w.dist EXCEPT ![to] = @ + other.dist[from]],
             sqr  |-> [w.sqr  EXCEPT ![to] = @ + other.sqr[from]],
             wt   |-> [w.wt   EXCEPT ![to] = @ + other.wt[from]]]
    /\ last' = Call("transferAcc", from)
    /\ out' = NoOut
    /\ hist' = NoHist
    /\ UNCHANGED <<status, other, script>>

\* transfer(from, to, w): throws, before touching anything
TransferAcc(from, to) ==
    /\ status = "ok"
    /\ nops > 0
    /\ nops' = nops - 1
    /\ err' = NotImplemented
    /\ last' = Call("transferAcc", from)
    /\ out' = NoOut
    /\ UNCHANGED <<status, w, other, hist, script>>

\* clip(bucket)
Clip(bucket) ==
    /\ status = "ok"
    /\ nops > 0
    /\ nops' = nops - 1
    /\ w' = W_clip(w, bucket)
    /\ hist' = NoHist
    /\ last' = Call("clip", bucket)
    /\ err' = ""
    /\ out' = NoOut
    /\ UNCHANGED <<status, other, script>>

\* swap_buckets(b1, b2)
SwapBuckets(b1, b2) ==
    /\ status = "ok"
    /\ nops > 0
    /\ nops' = nops - 1
    /\ w' = W_swap_buckets(w, b1, b2)
    /\ hist' = NoHist
    /\ last' = [Step("swap_buckets") EXCEPT !.prePure = FALSE]
    /\ err' = ""
    /\ out' = NoOut
    /\ UNCHANGED <<status, other, script>>

\* swap(other)
Swap ==
    /\ status = "ok"
    /\ nops > 0
    /\ nops' = nops - 1
    /\ w' = other
    /\ other' = w
    /\ hist' = NoHist
    /\ last' = [Step("swap") EXCEPT !.prePure = FALSE]
    /\ err' = ""
    /\ out' = NoOut
    /\ UNCHANGED <<status, script>>

\* the search driver scoring a candidate: missing(w), then operator()(w)
Score ==
    /\ status = "ok"
    /\ nops > 0
    /\ nops' = nops - 1
    /\ out' = [op |-> "score", missing |-> Z_missing(w), score |-> Z_score(w)]
    /\ UNCHANGED <<status, w, other, err, last, hist, script>>

\* best scores so far the driver prunes against: worst before any candidate
\* was scored, then the scores of candidates
ZBests == {Perfect, IntZ(1), IntZ(3), Worst}

\* the search driver pruning a candidate: can_beat(w, missing(w), z_best)
CanBeat(z_best) ==
    /\ status = "ok"
    /\ nops > 0
    /\ nops' = nops - 1
    /\ LET m == Z_missing(w)
       IN  out' = [op |-> "can_beat", missing |-> m, z_best |-> z_best,
                   result |-> Z_can_beat(w, m, z_best)]
    /\ UNCHANGED <<status, w, other, err, last, hist, script>>

\* C_regress::operator()(w, epsilon, optional)
Predict ==
    /\ status = "ok"
    /\ nops > 0
    /\ nops' = nops - 1
    /\ out' = [op |-> "predict", result |-> C_regress(w)]
    /\ UNCHANGED <<status, w, other, err, last, hist, script>>

\* scores handed to better and equal
ZSamples == {None, Perfect, Worst, NaN, IntZ(1), IntZ(3), IntZ(-2), MkRat(1, 2)}

\* Z_regress::better(z1, z2)
Better(z1, z2) ==
    /\ nops > 0
    /\ nops' = nops - 1
    /\ out' = [op |-> "better", z1 |-> z1, z2 |-> z2, result |-> Z_better(z1, z2)]
    /\ UNCHANGED <<status, w, other, err, last, hist, script>>

\* Z_regress::equal(z1, z2)
Equal(z1, z2) ==
    /\ nops > 0
    /\ nops' = nops - 1
    /\ out' = [op |-> "equal", z1 |-> z1, z2 |-> z2, result |-> Z_equal(z1, z2)]
    /\ UNCHANGED <<status, w, other, err, last, hist, script>>

\* the five examples of the end-to-end example, all of unit weight and all
\* added to bucket TRUE
ScenarioLabels == <<1, -1, 1, 1, -1>>

\* the driver adding the next example of the end-to-end example
ScenarioAdd ==
    /\ status = "ok"
    /\ script < Len(ScenarioLabels)
    /\ script' = script + 1
    /\ w' = W_add(w, ScenarioLabels[script + 1], 1, 1, 1)
    /\ hist' = HistAdd(hist, ScenarioLabels[script + 1], 1, 1, 1)
    /\ last' = Step("add")
    /\ err' = ""
    /\ out' = NoOut
    /\ UNCHANGED <<status, other, nops>>

-----------------------------------------------------------------------------
(* specifications *)

\* a freshly constructed accumulator (and a second one), and a driver with
\* `calls' calls to make
Start(calls) ==
    /\ status = "ok"
    /\ w = ZeroW
    /\ other = ZeroW
    /\ err = ""
    /\ last = [op |-> "construct", arg |-> 1, pre |-> ZeroW, preOther |-> ZeroW,
               prePure |-> FALSE]
    /\ hist = FreshHist
    /\ out = NoOut
    /\ nops = calls

\* the accumulator's operations
Init == Start(MaxOps) /\ script = Len(ScenarioLabels)

Next ==
    \/ \E nl \in 0 .. MaxNl : Construct(nl)
    \/ \E f \in Labels, b \in Buckets, s \in WeightScales, it \in ExampleWeights :
          Add(f, b, s, it)
    \/ \E f \in Labels, b \in Buckets, it \in ExampleWeights : AddUnit(f, b, it)
    \/ \E f \in Labels, from \in Buckets, to \in Buckets,
          s \in WeightScales, it \in ExampleWeights :
          Transfer(f, from, to, s, it)
    \/ \E from \in Buckets, to \in Buckets : TransferAcc(from, to)
    \/ \E b \in Buckets : Clip(b)
    \/ \E b1 \in Buckets, b2 \in Buckets : SwapBuckets(b1, b2)
    \/ Swap

Spec == Init /\ [][Next]_vars

\* the search driver: examples added and moved, candidates scored and pruned,
\* leaf predictions made
InitZC == Start(MaxZCalls) /\ script = Len(ScenarioLabels)

NextZC ==
    \/ \E f \in Labels, b \in Buckets, s \in WeightScales, it \in ExampleWeights :
          Add(f, b, s, it)
    \/ \E f \in Labels, from \in Buckets, to \in Buckets,
          s \in WeightScales, it \in ExampleWeights :
          Transfer(f, from, to, s, it)
    \/ \E b \in Buckets : Clip(b)
    \/ Score
    \/ \E z \in ZBests : CanBeat(z)
    \/ Predict

SpecZC == InitZC /\ [][NextZC]_vars

\* pruning: examples are added (none is moved), candidates scored and pruned
InitPrune == Start(MaxPruneCalls) /\ script = Len(ScenarioLabels)

NextPrune ==
    \/ \E f \in Labels, b \in Buckets, s \in WeightScales, it \in ExampleWeights :
          Add(f, b, s, it)
    \/ Score
    \/ \E z \in ZBests : CanBeat(z)

SpecPrune == InitPrune /\ [][NextPrune]_vars

\* the comparisons of scores
InitZ == Start(MaxZCalls) /\ script = Len(ScenarioLabels)

NextZ ==
    \/ \E z1 \in ZSamples, z2 \in ZSamples : Better(z1, z2)
    \/ \E z1 \in ZSamples, z2 \in ZSamples : Equal(z1, z2)

SpecZ == InitZ /\ [][NextZ]_vars

\* the end-to-end example, followed by further calls
InitScenario == Start(MaxScenarioOps) /\ script = 0

NextScenario ==
    \/ ScenarioAdd
    \/ \E f \in Labels, b \in Buckets, s \in WeightScales, it \in ExampleWeights :
          Add(f, b, s, it)
    \/ \E f \in Labels, from \in Buckets, to \in Buckets,
          s \in WeightScales, it \in ExampleWeights :
          Transfer(f, from, to, s, it)
    \/ Score

SpecScenario == InitScenario /\ [][NextScenario]_vars

-----------------------------------------------------------------------------
(* the accumulator's operations: Spec *)

\* C1: conservation.  From a freshly constructed accumulator, after any
\* sequence of add and per-example transfer calls, the sum over the three
\* buckets of dist, of sqr and of wt equals the sum of what the add calls
\* alone put in: transfers move contributions, they create and destroy none.
Conservation ==
    (status = "ok" /\ hist.pure) =>
        /\ Total(w.dist) = hist.added.dist
        /\ Total(w.sqr) = hist.added.sqr
        /\ Total(w.wt) = hist.added.wt

\* a transfer of an example that was never in `from' has driven a bucket
\* negative, after an add
Conservation_Witness ==
    /\ status = "ok"
    /\ hist.pure
    /\ last.op = "transfer"
    /\ hist.added.wt > 0
    /\ \E b \in Buckets : w.wt[b] < 0

\* C3: constructing W_regress(nl) throws if and only if nl # 1; with nl = 1
\* it succeeds and leaves all nine fields 0.
ConstructOnlyForOneLabel ==
    last.op = "construct" =>
        /\ (err = NotRegression) <=> (last.arg # 1)
        /\ (status = "none") <=> (last.arg # 1)
        /\ last.arg = 1 =>
              /\ status = "ok"
              /\ err = ""
              /\ \A b \in Buckets : w.dist[b] = 0 /\ w.sqr[b] = 0 /\ w.wt[b] = 0

\* construction for two labels has thrown
ConstructOnlyForOneLabel_Witness ==
    /\ last.op = "construct"
    /\ last.arg = 2
    /\ err = NotRegression
    /\ status = "none"

\* C4: transfer(from, to, otherAccumulator) throws "not implemented" whatever
\* its arguments and the state, and leaves both accumulators as they were.
TransferAccNotImplemented ==
    last.op = "transferAcc" =>
        /\ err = NotImplemented
        /\ w = last.pre
        /\ other = last.preOther
        /\ status = "ok"

\* the call was made with a second accumulator that holds weight
TransferAccNotImplemented_Witness ==
    /\ last.op = "transferAcc"
    /\ other # ZeroW
    /\ err = NotImplemented

\* C7: clip is idempotent: clip(b) applied to the state clip(b) produced
\* changes nothing.
ClipIdempotent ==
    last.op = "clip" => W_clip(w, last.arg) = w

\* a clip that changed the accumulator
ClipIdempotent_Witness ==
    /\ last.op = "clip"
    /\ w # last.pre

\* C8, as claimed: from a state reached by add and transfer calls, clip(b)
\* leaves every field of every bucket less than or equal to its value before.
ClipNeverIncreases ==
    (last.op = "clip" /\ last.prePure) =>
        \A b \in Buckets :
            /\ w.dist[b] <= last.pre.dist[b]
            /\ w.sqr[b] <= last.pre.sqr[b]
            /\ w.wt[b] <= last.pre.wt[b]

\* C8, amended: from a state reached by add and transfer calls, clip(b) never
\* decreases a field: each field of bucket b becomes the larger of its value
\* before and 0, and the fields of the other two buckets keep their values.
ClipNeverDecreases ==
    (last.op = "clip" /\ last.prePure) =>
        \A b \in Buckets :
            /\ w.dist[b] >= last.pre.dist[b]
            /\ w.sqr[b] >= last.pre.sqr[b]
            /\ w.wt[b] >= last.pre.wt[b]
            /\ b = last.arg => w.dist[b] >= 0 /\ w.sqr[b] >= 0 /\ w.wt[b] >= 0
            /\ b = last.arg =>
                  /\ last.pre.dist[b] >= 0 => w.dist[b] = last.pre.dist[b]
                  /\ last.pre.sqr[b] >= 0 => w.sqr[b] = last.pre.sqr[b]
                  /\ last.pre.wt[b] >= 0 => w.wt[b] = last.pre.wt[b]
            /\ b # last.arg =>
                  /\ w.dist[b] = last.pre.dist[b]
                  /\ w.sqr[b] = last.pre.sqr[b]
                  /\ w.wt[b] = last.pre.wt[b]

\* clip has raised a negative dist to 0
ClipNeverDecreases_Witness ==
    /\ last.op = "clip"
    /\ last.prePure
    /\ last.pre.dist[last.arg] < 0
    /\ w.dist[last.arg] = 0

-----------------------------------------------------------------------------
(* the search driver: SpecZC, SpecPrune *)

\* score >= bound
ZGe(z, bound) == ~ZLt(z, bound)

\* C2, as claimed: when can_beat(w, missing(w), zBest) returns false, the full
\* score operator()(w) is at least zBest.
PruningSound ==
    (out.op = "can_beat" /\ ~out.result) => ZGe(Z_score(w), out.z_best)

\* missing terms handed to non_missing
MissingTerms == {IntZ(0), IntZ(2), MkRat(8, 3)}

\* C9, as claimed: in every state reached by add and per-example transfer
\* calls (all weights here are non-negative), non_missing(w, m) - m >= 0 for
\* every m, missing(w) >= 0, and the score lies between perfect and worst.
VarianceNonNegative ==
    (out.op = "score" /\ hist.pure) =>
        /\ \A m \in MissingTerms : ZGe(RatSub(Z_non_missing(w, m), m), IntZ(0))
        /\ ZGe(out.missing, IntZ(0))
        /\ ZGe(out.score, Perfect)
        /\ ZGe(Worst, out.score)

\* v = m * 2^e is within float rounding of p / q: |v - p/q| <= 2^-24 * |p/q|
WithinFloatRounding(v, p, q) ==
    /\ v.k = "num"
    /\ IF v.e >= 0
       THEN Abs(v.m * 2 ^ v.e * q - p) <= Abs(p) \div 2 ^ FloatDigits
       ELSE Abs(v.m * q - p * 2 ^ (-v.e)) <= (Abs(p) * 2 ^ (-v.e)) \div 2 ^ FloatDigits

\* C5: prediction fallback.  When the total weight is not zero, the prediction
\* of a bucket with wt <= 1e-20 is the global weighted mean total dist / total
\* wt, and that of a bucket with wt > 1e-20 is its own mean dist / wt, each as
\* the float the quotient narrows to.
PredictionFallback ==
    (out.op = "predict" /\ Total(w.wt) # 0) =>
        \A i \in Buckets :
            IF w.wt[i] > 0
            THEN /\ out.result[i] = FloatQuot(w.dist[i], w.wt[i])
                 /\ WithinFloatRounding(out.result[i], w.dist[i], w.wt[i])
            ELSE /\ out.result[i] = FloatQuot(Total(w.dist), Total(w.wt))
                 /\ WithinFloatRounding(out.result[i], Total(w.dist), Total(w.wt))

\* bucket TRUE holds no weight, the others hold 3, and the global mean -1/3 is
\* no float
PredictionFallback_Witness ==
    /\ out.op = "predict"
    /\ w.wt[1] = 0
    /\ Total(w.wt) = 3
    /\ Total(w.dist) = -1
    /\ out.result[1].e < -FloatDigits

-----------------------------------------------------------------------------
(* the comparisons of scores: SpecZ *)

\* C6: none is never better than any score, and for z1 other than none,
\* better(z1, z2) is z1 < z2.
NoneNeverBetter ==
    out.op = "better" =>
        /\ out.z1 = None => ~out.result
        /\ out.z1 # None => (out.result <=> ZLt(out.z1, out.z2))

\* none compared with worst, which it is below
NoneNeverBetter_Witness ==
    /\ out.op = "better"
    /\ out.z1 = None
    /\ out.z2 = Worst
    /\ ZLt(out.z1, out.z2)
    /\ ~out.result

-----------------------------------------------------------------------------
(* the end-to-end example: SpecScenario *)

RECURSIVE AddAll(_, _)
\* the accumulator that results from adding every example of the bag to the
\* bucket it is in
AddAll(acc, B) ==
    IF B = EmptyBag THEN acc
    ELSE LET e == CHOOSE x \in BagToSet(B) : TRUE
         IN  AddAll(W_add(acc, e.f, e.b, 1, e.w), B (-) SetToBag({e}))

Ex(b, f) == SetToBag({[b |-> b, f |-> f, w |-> 1]})

\* the five examples after the transfer of (label 1, weight 1) from TRUE to FALSE
ScenarioAfter == Ex(1, 1) (+) Ex(1, 1) (+) Ex(1, -1) (+) Ex(1, -1) (+) Ex(0, 1)

\* C10: transfer re-buckets an example.  As long as every transfer moved an
\* example that was in `from', the accumulator is the one obtained by adding
\* every example to the bucket it is in now; after the five unit-weight adds
\* of labels 1, -1, 1, 1, -1 to TRUE and the transfer of (label 1, weight 1)
\* from TRUE to FALSE: wt[TRUE] = 4, dist[TRUE] = 0, sqr[TRUE] = 4, wt[FALSE]
\* = 1, dist[FALSE] = 1, sqr[FALSE] = 1, MISSING all 0, and the score is 4.
TransferRebuckets ==
    (status = "ok" /\ hist.legit) =>
        /\ w = AddAll(ZeroW, hist.members)
        /\ hist.members = ScenarioAfter =>
              /\ w.wt[1] = 4 /\ w.dist[1] = 0 /\ w.sqr[1] = 4
              /\ w.wt[0] = 1 /\ w.dist[0] = 1 /\ w.sqr[0] = 1
              /\ w.wt[2] = 0 /\ w.dist[2] = 0 /\ w.sqr[2] = 0
              /\ out.op = "score" => out.score = IntZ(4)

\* the example's transfer has been made and the result scored
TransferRebuckets_Witness ==
    /\ status = "ok"
    /\ hist.legit
    /\ script = Len(ScenarioLabels)
    /\ last.op = "transfer"
    /\ hist.members = ScenarioAfter
    /\ out.op = "score"
    /\ out.score = IntZ(4)

====
